---- MODULE Spec2Model ----
(***************************************************************************)
(* Job-status polling of the video generation frontend.                    *)
(*                                                                         *)
(* Two clients of GET /api/video-status/{questionId} are modelled:         *)
(*   - ApiService.pollVideoStatus (services/api.ts), a promise-returning   *)
(*     polling loop driven by setTimeout, and                              *)
(*   - the polling effect of the VideoGenerationProgress component         *)
(*     (components/VideoGenerationProgress.tsx), driven by setInterval.    *)
(* The status endpoint is the environment: every read ends in one of the   *)
(* outcomes of Outcomes, chosen nondeterministically.                      *)
(***************************************************************************)
EXTENDS Integers, Sequences, FiniteSets, TLC

VARIABLES
    consumer,       \* which client of the status endpoint is run, and in which setting
    maxAttempts,    \* pollVideoStatus: parameter maxAttempts
    interval,       \* pollVideoStatus: parameter interval (ms)
    attempts,       \* pollVideoStatus: local `attempts`
    pollCalled,     \* pollVideoStatus has been called
    pollInflight,   \* pollVideoStatus: status reads awaiting their outcome
    pollTimers,     \* pollVideoStatus: pending setTimeout(poll, delay) timers
    pollSettles,    \* pollVideoStatus: calls of resolve / reject, in order
    progressLog,    \* pollVideoStatus: calls of onProgress, in order
    readLog,        \* pollVideoStatus: outcome class of each finished read
    timerLog,       \* pollVideoStatus: every setTimeout(poll, delay) made, in order
    vgpMounted,     \* VideoGenerationProgress: a component instance is mounted
    questionId,     \* VideoGenerationProgress: prop questionId of the last render
    vgpInstance,    \* VideoGenerationProgress: number of instances mounted so far
    vgpSession,     \* VideoGenerationProgress: number of runs of the polling effect
    vgpTimers,      \* VideoGenerationProgress: active setInterval(pollStatus, 2000)
    vgpInflight,    \* VideoGenerationProgress: fetches awaiting their outcome
    vgpReads,       \* VideoGenerationProgress: number of fetches issued so far
    vgpStatus,      \* VideoGenerationProgress: state `status` of the mounted instance
    isPolling,      \* VideoGenerationProgress: state `isPolling`
    vgpCalls,       \* VideoGenerationProgress: calls of onComplete / onError, in order
    vgpLast,        \* VideoGenerationProgress: the fetch that finished last, with its outcome
    vgpFailures,    \* VideoGenerationProgress: number of fetches that failed so far
    vgpLog,         \* VideoGenerationProgress: the finished fetches, in order of arrival
    generatingQuestion, \* QuestionsPage: state `generatingQuestion`
    showProgress,   \* QuestionsPage: state `showProgress`
    loading,        \* QuestionsPage: state `loading`
    qpLoads,        \* QuestionsPage: calls of loadQuestions awaiting getQuestions
    qpPending,      \* QuestionsPage: calls of handleGenerateVideo awaiting generateVideo
    qpLast,         \* QuestionsPage: the answer of the generateVideo call that finished last
    questions,      \* QuestionsPage: state `questions`, as the set of their ids
    qpChild,        \* QuestionsPage: the child that <AnimatePresence> of the right panel renders
    qpExiting,      \* QuestionsPage: that child is running its exit animation
    qpClicks,       \* QuestionsPage: number of calls of handleGenerateVideo so far
    qpRendered,     \* QuestionsPage: the state that the last render of the page used
    qpQueued,       \* QuestionsPage: a setQuestions(questionsData) awaits its render
    qpEffect,       \* QuestionsPage: what the last commit left to the effects of the tracker
    currentStep,    \* ProcessingPage: state `currentStep`
    progress,       \* ProcessingPage: state `progress`, a fraction <<numerator, denominator>>
    isComplete,     \* ProcessingPage: state `isComplete`
    ppPc,           \* ProcessingPage: where runSteps is waiting
    ppI,            \* ProcessingPage: runSteps, local `i`
    ppJ,            \* ProcessingPage: runSteps, local `j`
    ppRuns          \* ProcessingPage: number of calls of runSteps so far

pollVars == <<maxAttempts, interval, attempts, pollCalled, pollInflight,
              pollTimers, pollSettles, progressLog, readLog, timerLog>>

vgpVars == <<vgpMounted, questionId, vgpInstance, vgpSession, vgpTimers, vgpInflight,
             vgpReads, vgpStatus, isPolling, vgpCalls, vgpLast, vgpFailures,
             vgpLog>>

pageVars == <<generatingQuestion, showProgress, loading, qpLoads, qpPending,
              qpLast, questions, qpChild, qpExiting, qpClicks, qpRendered, qpQueued,
              qpEffect>>

procVars == <<currentStep, progress, isComplete, ppPc, ppI, ppJ, ppRuns>>

-----------------------------------------------------------------------------
(* Bounds of the model *)

MaxAttemptsBound == 3

MaxReads == 2

MaxSessions == 2
\* calls of handleGenerateVideo on QuestionsPage
MaxGenerates == 2

-----------------------------------------------------------------------------
(* The status endpoint: VideoStatusResponse bodies and read outcomes *)

NoField == "undefined"

Body(st, pr, vf, er) ==
    [status |-> st, progress |-> pr, video_file |-> vf, error |-> er]

NoStatus == Body(NoField, 0, NoField, NoField)

Bodies ==
    { Body("queued", 0, NoField, NoField),
      Body("running", 55, NoField, NoField),
      Body("completed", 100, "video_Q1.mp4", NoField),
      Body("failed", 30, NoField, "render engine crashed"),
      Body("failed", 30, NoField, ""),
      Body("failed", 30, NoField, NoField),
      Body(NoField, 10, NoField, NoField) }

Questions == {"Q1", "Q2"}

\* VideoGenerationProgress run against a status endpoint that is unreachable:
\* every fetch fails. The numbering and the log of the fetches, which grow
\* with every fetch, are not kept in this setting, so that the polling, which
\* never ends, runs through finitely many states
Outage == "VideoGenerationProgress, status endpoint unreachable"

\* QuestionsPage run with the answers of generateVideo recorded in qpLast
Submission == "QuestionsPage, answers of generateVideo recorded"

Null == "null"

\* no call of generateVideo has finished
NoSubmission == "none"

NoRead == [read |-> 0, session |-> 0, question |-> NoField, kind |-> "none",
           body |-> NoStatus]

Outcomes ==
    { [kind |-> "network", body |-> NoStatus],
      [kind |-> "http", body |-> NoStatus],
      [kind |-> "malformed", body |-> NoStatus] }
    \cup { [kind |-> "ok", body |-> b] : b \in Bodies }

ErrNetwork == "TypeError: Failed to fetch"
ErrHttp == "API Error: 500 Internal Server Error"
ErrParse == "SyntaxError: Unexpected token in JSON"
ErrCallback == "exception thrown by onProgress"
MsgTimeout == "Video generation timeout"
MsgFailed == "Video generation failed"

TransportErrors == {ErrNetwork, ErrHttp, ErrParse}

\* ApiService.request: the fetch rejects, the response is not ok, or
\* response.json() rejects: the error is rethrown; otherwise the decoded body.
Request(o) ==
    CASE o.kind = "network" -> [ok |-> FALSE, value |-> NoStatus, error |-> ErrNetwork]
      [] o.kind = "http" -> [ok |-> FALSE, value |-> NoStatus, error |-> ErrHttp]
      [] o.kind = "malformed" -> [ok |-> FALSE, value |-> NoStatus, error |-> ErrParse]
      [] o.kind = "ok" -> [ok |-> TRUE, value |-> o.body, error |-> ""]

\* ApiService.getVideoStatus
GetVideoStatus(o) == Request(o)

\* ErrorOrDefault ignoring the error of the service
ErrorOrDefault_Fixed(e) == MsgFailed

\* ErrorOrDefault without the default
ErrorOrDefault_Raw(e) == e

\* status.error || 'Video generation failed'
ErrorOrDefault(e) == IF e = NoField \/ e = "" THEN MsgFailed ELSE e

-----------------------------------------------------------------------------
(* ApiService.pollVideoStatus *)

MaxDelay == 30000

Intervals == {2000, 5000, 20000, 40000}

\* A delay in ms as the fraction <<numerator, denominator>>.
Ms(n) == <<n, 1>>

DelayLeq(a, b) == a[1] * b[2] <= b[1] * a[2]

DelayEq(a, b) == a[1] * b[2] = b[1] * a[2]

\* the backoff without the cap
BackoffInterval_NoCap(i, a) == <<i * (3 ^ a), 2 ^ a>>

\* Math.min(interval * Math.pow(1.5, attempts), 30000)
BackoffInterval(i, a) ==
    IF i * (3 ^ a) <= MaxDelay * (2 ^ a) THEN <<i * (3 ^ a), 2 ^ a>> ELSE Ms(MaxDelay)

Resolve(st, a) == [kind |-> "resolve", status |-> st, error |-> "", read |-> a]

Reject(err, a) == [kind |-> "reject", status |-> NoStatus, error |-> err, read |-> a]

Timer(d, k, a) == [delay |-> d, kind |-> k, read |-> a]

Effect(pr, se, ti) == [progress |-> pr, settle |-> se, timers |-> ti]

\* CatchBranch with the ceiling check dropped: a failed read is always retried
CatchBranch_NoCeiling(err, a, m, i) ==
    Effect(<<>>, <<>>, <<Timer(BackoffInterval(i, a), "backoff", a)>>)

\* CatchBranch without the retry: the first failed read rejects the promise
CatchBranch_NoRetry(err, a, m, i) ==
    Effect(<<>>, <<Reject(err, a)>>, <<>>)

\* the catch branch of poll
CatchBranch(err, a, m, i) ==
    IF a >= m
    THEN Effect(<<>>, <<Reject(err, a)>>, <<>>)
    ELSE Effect(<<>>, <<>>, <<Timer(BackoffInterval(i, a), "backoff", a)>>)

\* StatusBranch with the next poll scheduled outside the else chain: polling
\* goes on after the promise is settled
StatusBranch_KeepsPolling(st, a, m, i) ==
    IF st.status = "completed"
    THEN Effect(<<>>, <<Resolve(st, a)>>, <<Timer(Ms(i), "interval", a)>>)
    ELSE IF st.status = "failed"
    THEN Effect(<<>>, <<Reject(ErrorOrDefault(st.error), a)>>, <<Timer(Ms(i), "interval", a)>>)
    ELSE IF a >= m
    THEN Effect(<<>>, <<Reject(MsgTimeout, a)>>, <<>>)
    ELSE Effect(<<>>, <<>>, <<Timer(Ms(i), "interval", a)>>)

\* StatusBranch with the backoff delay used for the regular next poll as well
StatusBranch_Backoff(st, a, m, i) ==
    IF st.status = "completed"
    THEN Effect(<<>>, <<Resolve(st, a)>>, <<>>)
    ELSE IF st.status = "failed"
    THEN Effect(<<>>, <<Reject(ErrorOrDefault(st.error), a)>>, <<>>)
    ELSE IF a >= m
    THEN Effect(<<>>, <<Reject(MsgTimeout, a)>>, <<>>)
    ELSE Effect(<<>>, <<>>, <<Timer(BackoffInterval(i, a), "interval", a)>>)

\* StatusBranch with the ceiling tested before the status
StatusBranch_CeilingFirst(st, a, m, i) ==
    IF a >= m
    THEN Effect(<<>>, <<Reject(MsgTimeout, a)>>, <<>>)
    ELSE IF st.status = "completed"
    THEN Effect(<<>>, <<Resolve(st, a)>>, <<>>)
    ELSE IF st.status = "failed"
    THEN Effect(<<>>, <<Reject(ErrorOrDefault(st.error), a)>>, <<>>)
    ELSE Effect(<<>>, <<>>, <<Timer(Ms(i), "interval", a)>>)

\* the if / else chain of poll after onProgress has returned
StatusBranch(st, a, m, i) ==
    IF st.status = "completed"
    THEN Effect(<<>>, <<Resolve(st, a)>>, <<>>)
    ELSE IF st.status = "failed"
    THEN Effect(<<>>, <<Reject(ErrorOrDefault(st.error), a)>>, <<>>)
    ELSE IF a >= m
    THEN Effect(<<>>, <<Reject(MsgTimeout, a)>>, <<>>)
    ELSE Effect(<<>>, <<>>, <<Timer(Ms(i), "interval", a)>>)

\* TryBranch with onProgress called for non-terminal statuses only
TryBranch_NoTerminalProgress(st, throws, a, m, i) ==
    IF st.status \in {"completed", "failed"}
    THEN StatusBranch(st, a, m, i)
    ELSE LET rest == IF throws THEN CatchBranch(ErrCallback, a, m, i)
                     ELSE StatusBranch(st, a, m, i)
         IN  Effect(<<[read |-> a, status |-> st]>>, rest.settle, rest.timers)

\* the try block of poll after the await: onProgress(status), then the chain;
\* an exception of onProgress is caught by the same catch as a failed read
TryBranch(st, throws, a, m, i) ==
    LET rest == IF throws THEN CatchBranch(ErrCallback, a, m, i)
                ELSE StatusBranch(st, a, m, i)
    IN  Effect(<<[read |-> a, status |-> st]>>, rest.settle, rest.timers)

\* what one finished read does: res is the outcome of getVideoStatus
AfterRead(res, throws, a, m, i) ==
    IF res.ok THEN TryBranch(res.value, throws, a, m, i)
    ELSE CatchBranch(res.error, a, m, i)

\* poll up to its await: attempts++ and the read is issued
PollStart ==
    /\ attempts' = attempts + 1
    /\ pollInflight' = pollInflight \cup {attempts + 1}

\* pollVideoStatus(questionId, onProgress, maxAttempts, interval): poll()
PollCall ==
    /\ consumer = "pollVideoStatus"
    /\ ~pollCalled
    /\ pollCalled' = TRUE
    /\ \E m \in 1..MaxAttemptsBound, i \in Intervals :
          /\ maxAttempts' = m
          /\ interval' = i
    /\ PollStart
    /\ UNCHANGED <<consumer, procVars, pageVars, vgpVars, pollTimers, pollSettles, progressLog,
                   readLog, timerLog>>

\* PollTimerFires of a repeating timer (setInterval in place of setTimeout)
PollTimerFires_Repeats ==
    /\ pollTimers # <<>>
    /\ attempts <= MaxAttemptsBound
    /\ PollStart
    /\ UNCHANGED <<consumer, procVars, pageVars, vgpVars, maxAttempts, interval, pollCalled,
                   pollTimers, pollSettles, progressLog, readLog, timerLog>>

\* a setTimeout(poll, delay) timer fires
PollTimerFires ==
    /\ \E k \in 1..Len(pollTimers) :
          pollTimers' = SubSeq(pollTimers, 1, k - 1)
                          \o SubSeq(pollTimers, k + 1, Len(pollTimers))
    /\ PollStart
    /\ UNCHANGED <<consumer, procVars, pageVars, vgpVars, maxAttempts, interval, pollCalled,
                   pollSettles, progressLog, readLog, timerLog>>

\* the awaited read of poll finishes with outcome o
PollReadSettles ==
    \E r \in pollInflight, o \in Outcomes, throws \in BOOLEAN :
        LET res == GetVideoStatus(o)
            eff == AfterRead(res, throws, attempts, maxAttempts, interval)
        IN  /\ (throws => res.ok)
            /\ pollInflight' = pollInflight \ {r}
            /\ progressLog' = progressLog \o eff.progress
            /\ pollSettles' = pollSettles \o eff.settle
            /\ pollTimers' = pollTimers \o eff.timers
            /\ timerLog' = timerLog \o eff.timers
            /\ readLog' = Append(readLog,
                             [read |-> r, kind |-> o.kind, body |-> o.body,
                              threw |-> throws])
            /\ UNCHANGED <<consumer, procVars, pageVars, vgpVars, maxAttempts, interval, attempts,
                           pollCalled>>

-----------------------------------------------------------------------------
(* VideoGenerationProgress: the polling effect *)

PollIntervalMs == 2000

Call(k, st, err, r) ==
    [kind |-> k, status |-> st, error |-> err, read |-> r.id, session |-> r.session,
     question |-> r.question]

\* a pollStatus that passes the completion without the artifact reference
PollStatus_DropsArtifact(o, r) ==
    IF o.kind # "ok"
    THEN [setStatus |-> <<>>, setIsPolling |-> <<>>, calls |-> <<>>]
    ELSE IF o.body.status = "completed"
    THEN [setStatus |-> <<o.body>>, setIsPolling |-> <<FALSE>>,
          calls |-> <<Call("onComplete",
                           Body("completed", o.body.progress, NoField, NoField),
                           "", r)>>]
    ELSE IF o.body.status = "failed"
    THEN [setStatus |-> <<o.body>>, setIsPolling |-> <<FALSE>>,
          calls |-> <<Call("onError", NoStatus, ErrorOrDefault(o.body.error), r)>>]
    ELSE [setStatus |-> <<o.body>>, setIsPolling |-> <<>>, calls |-> <<>>]

\* a pollStatus that reports a failed fetch to the caller
PollStatus_ErrorsOnFailure(o, r) ==
    IF o.kind # "ok"
    THEN [setStatus |-> <<>>, setIsPolling |-> <<>>,
          calls |-> <<Call("onError", NoStatus, MsgFailed, r)>>]
    ELSE IF o.body.status = "completed"
    THEN [setStatus |-> <<o.body>>, setIsPolling |-> <<FALSE>>,
          calls |-> <<Call("onComplete", o.body, "", r)>>]
    ELSE IF o.body.status = "failed"
    THEN [setStatus |-> <<o.body>>, setIsPolling |-> <<FALSE>>,
          calls |-> <<Call("onError", NoStatus, ErrorOrDefault(o.body.error), r)>>]
    ELSE [setStatus |-> <<o.body>>, setIsPolling |-> <<>>, calls |-> <<>>]

\* pollStatus after its fetch has finished with outcome o, for the fetch r:
\* a rejected fetch or json() is caught and logged, a response that is not ok
\* is skipped; otherwise setStatus, and on a terminal status setIsPolling(false)
\* and the terminal callback
PollStatus(o, r) ==
    IF o.kind # "ok"
    THEN [setStatus |-> <<>>, setIsPolling |-> <<>>, calls |-> <<>>]
    ELSE IF o.body.status = "completed"
    THEN [setStatus |-> <<o.body>>, setIsPolling |-> <<FALSE>>,
          calls |-> <<Call("onComplete", o.body, "", r)>>]
    ELSE IF o.body.status = "failed"
    THEN [setStatus |-> <<o.body>>, setIsPolling |-> <<FALSE>>,
          calls |-> <<Call("onError", NoStatus, ErrorOrDefault(o.body.error), r)>>]
    ELSE [setStatus |-> <<o.body>>, setIsPolling |-> <<>>, calls |-> <<>>]

\* the entry of the log for the fetch r that finished with outcome o: whether
\* it returned a body, the status and progress of the body, and whether
\* setStatus stored it
Finished(r, o, st) ==
    [read |-> r.id, session |-> r.session, question |-> r.question,
     ok |-> o.kind = "ok", status |-> o.body.status, progress |-> o.body.progress,
     stored |-> st]

\* fetch(`http://localhost:8000/api/video-status/${questionId}`) of the run s
\* of the effect in the instance c
Fetch(n, s, c, q) == [id |-> n, session |-> s, inst |-> c, question |-> q]

\* the interval of the run s of the effect; its pollStatus closes over q
Interval(s, c, q) == [session |-> s, inst |-> c, question |-> q]

\* the body of the polling effect: pollStatus() at once, then setInterval
RunEffect(c, q) ==
    /\ vgpSession' = vgpSession + 1
    /\ vgpReads' = vgpReads + 1
    /\ vgpInflight' = vgpInflight \cup {Fetch(vgpReads + 1, vgpSession + 1, c, q)}

\* a cleanup that leaves the interval running
Cleanup_Leaks(timers, s) == timers

\* the cleanup of the polling effect: clearInterval(interval)
Cleanup(timers, s) == {t \in timers : t.session # s}

\* React mounts an instance with questionId q: useState initial values, then
\* the polling effect runs
Mounting(q) ==
    /\ vgpMounted' = TRUE
    /\ vgpInstance' = vgpInstance + 1
    /\ vgpStatus' = NoStatus
    /\ isPolling' = TRUE
    /\ questionId' = q
    /\ RunEffect(vgpInstance + 1, q)
    /\ vgpTimers' = vgpTimers \cup {Interval(vgpSession + 1, vgpInstance + 1, q)}

\* a render of the mounted instance changes a dependency of the polling
\* effect: the cleanup of the previous run, then the effect again
Rerunning(q) ==
    /\ questionId' = q
    /\ RunEffect(vgpInstance, q)
    /\ vgpTimers' = Cleanup(vgpTimers, vgpSession)
                      \cup {Interval(vgpSession + 1, vgpInstance, q)}
    /\ UNCHANGED <<vgpMounted, vgpInstance, vgpStatus, isPolling>>

\* React unmounts the instance: the cleanup of the polling effect
Unmounting ==
    /\ vgpMounted' = FALSE
    /\ vgpTimers' = Cleanup(vgpTimers, vgpSession)
    /\ UNCHANGED <<questionId, vgpInstance, vgpSession, vgpInflight, vgpReads,
                   vgpStatus, isPolling>>

\* the component is mounted by some parent
VGPMount ==
    /\ consumer \in {"VideoGenerationProgress", Outage}
    /\ ~vgpMounted
    /\ vgpSession < MaxSessions
    /\ vgpReads < MaxReads
    /\ \E q \in Questions : Mounting(q)
    /\ UNCHANGED <<consumer, procVars, pageVars, pollVars, vgpCalls, vgpLast, vgpFailures,
                   vgpLog>>

\* a dependency of the effect (questionId, onComplete, onError) changes on a
\* render of the parent
VGPDepsChange ==
    /\ consumer \in {"VideoGenerationProgress", Outage}
    /\ vgpMounted
    /\ vgpSession < MaxSessions
    /\ vgpReads < MaxReads
    /\ \E q \in Questions : Rerunning(q)
    /\ UNCHANGED <<consumer, procVars, pageVars, pollVars, vgpCalls, vgpLast, vgpFailures,
                   vgpLog>>

\* the component is unmounted by its parent
VGPUnmount ==
    /\ consumer \in {"VideoGenerationProgress", Outage}
    /\ vgpMounted
    /\ Unmounting
    /\ UNCHANGED <<consumer, procVars, pageVars, pollVars, vgpCalls, vgpLast, vgpFailures,
                   vgpLog>>

\* the interval timer fires: pollStatus() issues a fetch
VGPTick ==
    /\ consumer # Outage
    /\ vgpReads < MaxReads
    /\ \E t \in vgpTimers :
          vgpInflight' = vgpInflight
                           \cup {Fetch(vgpReads + 1, t.session, t.inst, t.question)}
    /\ vgpReads' = vgpReads + 1
    /\ UNCHANGED <<consumer, procVars, pageVars, pollVars, vgpMounted, questionId, vgpInstance, vgpSession,
                   vgpTimers, vgpStatus, isPolling, vgpCalls, vgpLast,
                   vgpFailures, vgpLog>>

\* a fetch of pollStatus finishes with outcome o; state setters of an
\* instance that is no longer mounted have no effect
VGPReadSettles ==
    \E r \in vgpInflight, o \in Outcomes :
        LET eff == PollStatus(o, r)
            live == vgpMounted /\ r.inst = vgpInstance
        IN  /\ consumer = "VideoGenerationProgress"
            /\ vgpInflight' = vgpInflight \ {r}
            /\ vgpStatus' = IF live /\ eff.setStatus # <<>>
                            THEN eff.setStatus[1] ELSE vgpStatus
            /\ isPolling' = IF live /\ eff.setIsPolling # <<>>
                            THEN eff.setIsPolling[1] ELSE isPolling
            /\ vgpCalls' = vgpCalls \o eff.calls
            /\ vgpLast' = [read |-> r.id, session |-> r.session,
                            question |-> r.question, kind |-> o.kind,
                            body |-> o.body]
            /\ vgpFailures' = IF o.kind = "ok" THEN vgpFailures ELSE vgpFailures + 1
            /\ vgpLog' = Append(vgpLog,
                            Finished(r, o, live /\ eff.setStatus # <<>>))
            /\ UNCHANGED <<consumer, procVars, pageVars, pollVars, vgpMounted, questionId, vgpInstance,
                           vgpSession, vgpTimers, vgpReads>>

\* the fetches that may be outstanding at a time while the endpoint is
\* unreachable
MaxOutstanding == 2

\* the numbers that no outstanding fetch carries
FreeNumbers == {n \in 1..MaxOutstanding : \A r \in vgpInflight : r.id # n}

\* the interval timer fires while the endpoint is unreachable: pollStatus()
\* issues a fetch, told from the other outstanding fetches by a free number
VGPTickOutage ==
    /\ consumer = Outage
    /\ FreeNumbers # {}
    /\ \E t \in vgpTimers :
          LET n == CHOOSE m \in FreeNumbers : \A k \in FreeNumbers : m <= k
          IN  vgpInflight' = vgpInflight
                               \cup {Fetch(n, t.session, t.inst, t.question)}
    /\ UNCHANGED <<consumer, procVars, pageVars, pollVars, vgpMounted, questionId, vgpInstance,
                   vgpSession, vgpTimers, vgpReads, vgpStatus, isPolling, vgpCalls,
                   vgpLast, vgpFailures, vgpLog>>

\* a fetch of pollStatus fails while the endpoint is unreachable: the fetch
\* rejects, the response is not ok, or json() rejects
VGPReadFails ==
    \E r \in vgpInflight, o \in {x \in Outcomes : x.kind # "ok"} :
        LET eff == PollStatus(o, r)
            live == vgpMounted /\ r.inst = vgpInstance
        IN  /\ consumer = Outage
            /\ vgpInflight' = vgpInflight \ {r}
            /\ vgpStatus' = IF live /\ eff.setStatus # <<>>
                            THEN eff.setStatus[1] ELSE vgpStatus
            /\ isPolling' = IF live /\ eff.setIsPolling # <<>>
                            THEN eff.setIsPolling[1] ELSE isPolling
            /\ vgpCalls' = vgpCalls \o eff.calls
            /\ UNCHANGED <<consumer, procVars, pageVars, pollVars, vgpMounted, questionId,
                           vgpInstance, vgpSession, vgpTimers, vgpReads, vgpLast,
                           vgpFailures, vgpLog>>

-----------------------------------------------------------------------------
(* QuestionsPage: the page that renders VideoGenerationProgress *)

\* the page is run, with or without the record of the answers
OnPage == consumer \in {"QuestionsPage", Submission}

\* the answers of apiService.generateVideo: request() throws ("error"), or it
\* returns the decoded body as it came, whose `status` is a string that is
\* not checked: `started`, `already_exists`, or neither (NoField: the body
\* has no status that the page names)
SubmitAnswers == {"started", "already_exists", NoField, "error"}

\* the outcomes of a fetch that the page is run against: one of each class
\* that the page tells apart (no callback, onComplete, onError)
PageOutcomes ==
    { [kind |-> "ok", body |-> Body("running", 55, NoField, NoField)],
      [kind |-> "ok", body |-> Body("completed", 100, "video_Q1.mp4", NoField)],
      [kind |-> "ok", body |-> Body("failed", 30, NoField, "render engine crashed")] }

\* the child that the right panel asks <AnimatePresence mode="wait"> to
\* render: `showProgress && generatingQuestion && ...` (key "progress"),
\* `!showProgress && !showVideo && ...` (key "placeholder"); showVideo stays
\* null, since the View button is rendered only after a preview was loaded
Target(gq, sp) ==
    IF sp /\ gq # Null THEN "progress"
    ELSE IF ~sp THEN "placeholder"
    ELSE "empty"

\* the state (generatingQuestion, showProgress, loading, questions) used by a
\* render
View(gq, sp, ld, qs) ==
    [generatingQuestion |-> gq, showProgress |-> sp, loading |-> ld, questions |-> qs]

\* what a render of the page with state (gq, sp, ld) does to the right panel.
\* `if (loading) return` renders the spinner alone, which unmounts the panel
\* at once; a panel that mounts renders its child at once; a child that is
\* still asked for is rendered with the props of this render (the tracker
\* gets new handlers, so its effect re-runs); a child that is no longer asked
\* for stays rendered as it was and animates out, and the child asked for
\* waits for that exit
Reconcile(gq, sp, ld) ==
    LET t == Target(gq, sp)
    IN  IF ld
        THEN [child |-> "spinner", exiting |-> FALSE,
              tracker |-> IF vgpMounted THEN "unmount" ELSE "keep"]
        ELSE IF qpChild \in {"spinner", "empty"}
        THEN [child |-> t, exiting |-> FALSE,
              tracker |-> IF t = "progress" THEN "mount" ELSE "keep"]
        ELSE IF t = qpChild
        THEN [child |-> t, exiting |-> FALSE,
              tracker |-> IF t = "progress" THEN "rerun" ELSE "keep"]
        ELSE [child |-> qpChild, exiting |-> TRUE, tracker |-> "keep"]

\* the tracker of the page: the instance and the runs of its polling effect
Tracker ==
    [mounted |-> vgpMounted, questionId |-> questionId, instance |-> vgpInstance,
     session |-> vgpSession, timers |-> vgpTimers, inflight |-> vgpInflight,
     reads |-> vgpReads, status |-> vgpStatus, isPolling |-> isPolling]

\* the body of the polling effect run on the tracker t: pollStatus() at once,
\* then setInterval
EffectBody(t) ==
    [t EXCEPT !.session = @ + 1,
              !.reads = @ + 1,
              !.inflight = @ \cup {Fetch(t.reads + 1, t.session + 1, t.instance,
                                         t.questionId)},
              !.timers = @ \cup {Interval(t.session + 1, t.instance, t.questionId)}]

\* the cleanup of the polling effect run on the tracker t
EffectCleanup(t) == [t EXCEPT !.timers = Cleanup(@, t.session)]

\* React runs the effects e that a commit left: of a mount the body, of a
\* render with changed dependencies the cleanup and the body, of an unmount
\* the cleanup
RunEffects(t, e) ==
    CASE e = "mount" -> EffectBody(t)
      [] e = "rerun" -> EffectBody(EffectCleanup(t))
      [] e = "unmount" -> EffectCleanup(t)
      [] OTHER -> t

\* React commits to the tracker t what the render decided: a mount makes a
\* new instance with the initial values of useState, a render of the mounted
\* instance takes the props, an unmount removes the instance
Commit(t, k, q) ==
    CASE k = "mount" -> [t EXCEPT !.mounted = TRUE, !.instance = @ + 1,
                                  !.status = NoStatus, !.isPolling = TRUE,
                                  !.questionId = q]
      [] k = "rerun" -> [t EXCEPT !.questionId = q]
      [] k = "unmount" -> [t EXCEPT !.mounted = FALSE]
      [] OTHER -> t

\* the runs of the polling effect and the fetches of the tracker t, with the
\* effects e run, are within the bounds
Fits(t, e) ==
    /\ RunEffects(t, e).session <= MaxSessions
    /\ RunEffects(t, e).reads <= MaxReads

\* the tracker becomes t
TrackerBecomes(t) ==
    /\ vgpMounted' = t.mounted
    /\ questionId' = t.questionId
    /\ vgpInstance' = t.instance
    /\ vgpSession' = t.session
    /\ vgpTimers' = t.timers
    /\ vgpInflight' = t.inflight
    /\ vgpReads' = t.reads
    /\ vgpStatus' = t.status
    /\ isPolling' = t.isPolling

\* React commits the decision k for the tracker, with the props q: the effects
\* that the commit before left are run first; the effects of this commit are
\* run with it when a click caused it (sync), and else are left to a later
\* task (QPEffects)
PanelCommit(k, q, sync) ==
    LET t == Commit(RunEffects(Tracker, qpEffect), k, q)
    IN  /\ Fits(t, k)
        /\ TrackerBecomes(IF sync THEN RunEffects(t, k) ELSE t)
        /\ qpEffect' = IF sync \/ k = "keep" THEN "none" ELSE k

\* React renders the page with state (gq, sp, ld, qs) and commits the result
PageRender(gq, sp, ld, qs, sync) ==
    LET rc == Reconcile(gq, sp, ld)
    IN  /\ qpRendered' = View(gq, sp, ld, qs)
        /\ qpChild' = rc.child
        /\ qpExiting' = rc.exiting
        /\ PanelCommit(rc.tracker, gq, sync)

\* the step is the continuation of a fetch: it queues its state updates and
\* React does not render the page in it
NoRender ==
    UNCHANGED <<qpRendered, qpChild, qpExiting, qpEffect, vgpMounted, questionId,
                vgpInstance, vgpSession, vgpTimers, vgpInflight, vgpReads, vgpStatus,
                isPolling>>

\* handleVideoComplete: the page state it sets, and its call of loadQuestions
HandleVideoComplete == [generatingQuestion |-> Null, showProgress |-> FALSE, loads |-> 1]

\* a handleVideoError that leaves showProgress set
HandleVideoError_KeepsProgress ==
    [generatingQuestion |-> Null, showProgress |-> TRUE, loads |-> 0]

\* handleVideoError
HandleVideoError == [generatingQuestion |-> Null, showProgress |-> FALSE, loads |-> 0]

\* a call of loadQuestions finishes: setQuestions(questionsData) when
\* getQuestions answered, and setLoading(false) in either case. Both updates
\* are queued by the continuation of the await; React renders them in a later
\* task (QPRender)
QPLoaded ==
    /\ OnPage
    /\ qpLoads > 0
    /\ qpLoads' = qpLoads - 1
    /\ loading' = FALSE
    /\ \E ok \in BOOLEAN :
          /\ questions' = IF ok THEN Questions ELSE questions
          /\ qpQueued' = (ok \/ qpQueued)
    /\ NoRender
    /\ UNCHANGED <<consumer, procVars, pollVars, generatingQuestion, showProgress, qpPending,
                   qpLast, qpClicks, vgpCalls, vgpLast, vgpFailures, vgpLog>>

\* a click on the Generate button of the card of q, as the last render
\* shows it (no cards under the spinner, disabled on the card of the question
\* being generated): handleGenerateVideo up to its await. React renders the
\* updates of a click at the end of the event, leaving those queued by the
\* continuation of a fetch (setLoading, setQuestions) to the render that is
\* still due. The effects that an earlier commit left are run before this
\* render, after the handler, and the effects of this render with its commit
QPGenerate ==
    /\ OnPage
    /\ ~qpRendered.loading
    /\ qpClicks < MaxGenerates
    /\ qpClicks' = qpClicks + 1
    /\ \E q \in qpRendered.questions :
          /\ q # qpRendered.generatingQuestion
          /\ generatingQuestion' = q
          /\ showProgress' = TRUE
          /\ qpPending' = qpPending \cup {[question |-> q, from |-> vgpReads,
                                            click |-> qpClicks + 1]}
          /\ PageRender(q, TRUE, FALSE, qpRendered.questions, TRUE)
    /\ UNCHANGED <<consumer, procVars, pollVars, loading, qpLoads, qpLast, questions,
                   qpQueued, vgpCalls, vgpLast, vgpFailures, vgpLog>>

\* generateVideo of a pending handleGenerateVideo answers: `started` (or any
\* other status) changes no state; `already_exists` and a thrown error queue
\* setGeneratingQuestion(null) and setShowProgress(false), which React
\* renders in a later task (QPRender)
QPSubmitAnswer ==
    /\ OnPage
    /\ \E p \in qpPending, a \in SubmitAnswers :
          LET reset == a \in {"already_exists", "error"}
          IN  /\ qpPending' = qpPending \ {p}
              /\ qpLast' = IF consumer = Submission THEN a ELSE qpLast
              /\ generatingQuestion' = IF reset THEN Null ELSE generatingQuestion
              /\ showProgress' = IF reset THEN FALSE ELSE showProgress
    /\ NoRender
    /\ UNCHANGED <<consumer, procVars, pollVars, loading, qpLoads, questions, qpClicks,
                   qpQueued, vgpCalls, vgpLast, vgpFailures, vgpLog>>

\* a fetch of pollStatus finishes with outcome o on the page: as
\* VGPReadSettles, and the terminal callback is handleVideoComplete or
\* handleVideoError of the page, which queue their state updates (and call
\* loadQuestions); React renders the page in a later task (QPRender). The
\* history of the fetches (vgpLast, vgpFailures, vgpLog) is kept for the
\* component on its own; on the page vgpCalls keeps the last call only
QPReadSettles ==
    \E r \in vgpInflight, o \in PageOutcomes :
        LET eff == PollStatus(o, r)
            live == vgpMounted /\ r.inst = vgpInstance
            h == IF eff.calls = <<>> THEN <<>>
                 ELSE IF eff.calls[1].kind = "onComplete" THEN <<HandleVideoComplete>>
                 ELSE <<HandleVideoError>>
        IN  /\ OnPage
            /\ vgpInflight' = vgpInflight \ {r}
            /\ vgpStatus' = IF live /\ eff.setStatus # <<>>
                            THEN eff.setStatus[1] ELSE vgpStatus
            /\ isPolling' = IF live /\ eff.setIsPolling # <<>>
                            THEN eff.setIsPolling[1] ELSE isPolling
            /\ vgpCalls' = IF eff.calls = <<>> THEN vgpCalls ELSE eff.calls
            /\ generatingQuestion' =
                  IF h = <<>> THEN generatingQuestion ELSE h[1].generatingQuestion
            /\ showProgress' = IF h = <<>> THEN showProgress ELSE h[1].showProgress
            /\ loading' = IF h # <<>> /\ h[1].loads > 0 THEN TRUE ELSE loading
            /\ qpLoads' = IF h = <<>> THEN qpLoads ELSE qpLoads + h[1].loads
            /\ UNCHANGED <<consumer, procVars, pollVars, qpPending, qpLast, questions, qpClicks,
                           qpQueued, qpEffect, qpRendered, qpChild, qpExiting, vgpLast, vgpFailures, vgpLog,
                           vgpMounted, vgpTimers, questionId, vgpInstance, vgpSession,
                           vgpReads>>

\* React renders the page with the state updates that the continuations of
\* the fetches have queued; updates that leave the state as it was rendered
\* cause no render
QPRender ==
    /\ OnPage
    /\ qpQueued \/ View(generatingQuestion, showProgress, loading, questions) # qpRendered
    /\ PageRender(generatingQuestion, showProgress, loading, questions, FALSE)
    /\ qpQueued' = FALSE
    /\ UNCHANGED <<consumer, procVars, pollVars, generatingQuestion, showProgress,
                   loading, qpLoads, qpPending, qpLast, questions, qpClicks, vgpCalls,
                   vgpLast, vgpFailures, vgpLog>>

\* the exit animation of the rendered child ends (0.3 s): the child is
\* unmounted, and the panel renders the child that the last render of the
\* page asked for
QPExitDone ==
    /\ OnPage
    /\ qpExiting
    /\ qpExiting' = FALSE
    /\ qpChild' = Target(qpRendered.generatingQuestion, qpRendered.showProgress)
    /\ PanelCommit(IF qpChild = "progress" THEN "unmount"
                   ELSE IF Target(qpRendered.generatingQuestion,
                                  qpRendered.showProgress) = "progress"
                   THEN "mount" ELSE "keep",
                   qpRendered.generatingQuestion, FALSE)
    /\ UNCHANGED <<consumer, procVars, pollVars, generatingQuestion, showProgress,
                   loading, qpLoads, qpPending, qpLast, questions, qpClicks,
                   qpRendered, qpQueued, vgpCalls, vgpLast, vgpFailures, vgpLog>>

\* React runs the effects of the tracker that the last commit left, in a task
\* after that commit
QPEffects ==
    /\ OnPage
    /\ qpEffect # "none"
    /\ Fits(Tracker, qpEffect)
    /\ TrackerBecomes(RunEffects(Tracker, qpEffect))
    /\ qpEffect' = "none"
    /\ UNCHANGED <<consumer, procVars, pollVars, generatingQuestion, showProgress,
                   loading, qpLoads, qpPending, qpLast, questions, qpClicks,
                   qpRendered, qpQueued, qpChild, qpExiting, vgpCalls, vgpLast,
                   vgpFailures, vgpLog>>

-----
(* ProcessingPage: the simulated generation steps *)

\* the array `steps`
Steps ==
    << [id |-> "research", duration |-> 3000],
       [id |-> "content", duration |-> 4000],
       [id |-> "video", duration |-> 5000] >>

\* const interval = 100
StepTickMs == 100

\* const stepsCount = stepDuration / interval, for the step with index i
StepsCount(i) == Steps[i + 1].duration \div StepTickMs

\* (j / stepsCount) * 100
StepProgress(j, n) == <<j * 100, n>>

\* an effect body without the guard on isComplete
StartsRun_Always(ic) == TRUE

\* `if (isComplete) return` of the effect: whether the effect calls runSteps
StartsRun(ic) == ~ic

\* runSteps enters the iteration i of its outer loop and runs up to the
\* first await of the inner loop
EnterStep(i) ==
    /\ ppI' = i
    /\ currentStep' = i
    /\ progress' = Ms(0)
    /\ ppJ' = 0
    /\ ppPc' = "tick"

\* the effect runs with isComplete = ic: runSteps() from its start, or nothing
RunStepsEffect(ic) ==
    IF StartsRun(ic)
    THEN EnterStep(0) /\ ppRuns' = ppRuns + 1
    ELSE /\ ppPc' = "done"
         /\ UNCHANGED <<currentStep, progress, ppI, ppJ, ppRuns>>

\* the page is mounted: useState initial values, then the effect
PPMount ==
    /\ consumer = "ProcessingPage"
    /\ ppPc = "unmounted"
    /\ RunStepsEffect(isComplete)
    /\ UNCHANGED <<consumer, pollVars, vgpVars, pageVars, isComplete>>

\* the 100 ms timeout of the inner loop ends: setProgress, j++, and either
\* the next timeout of the inner loop or the pause between steps
PPTick ==
    /\ ppPc = "tick"
    /\ progress' = StepProgress(ppJ, StepsCount(ppI))
    /\ ppJ' = ppJ + 1
    /\ ppPc' = IF ppJ + 1 <= StepsCount(ppI) THEN "tick" ELSE "pause"
    /\ UNCHANGED <<consumer, pollVars, vgpVars, pageVars, currentStep, isComplete,
                   ppI, ppRuns>>

\* the 500 ms pause ends: i++, then the next step, or setIsComplete(true),
\* after which the effect runs again because isComplete changed
PPPauseEnds ==
    /\ ppPc = "pause"
    /\ IF ppI + 1 < Len(Steps)
       THEN /\ EnterStep(ppI + 1)
            /\ UNCHANGED <<isComplete, ppRuns>>
       ELSE /\ isComplete' = TRUE
            /\ RunStepsEffect(TRUE)
    /\ UNCHANGED <<consumer, pollVars, vgpVars, pageVars>>

-----------------------------------------------------------------------------
vars == <<consumer, pollVars, vgpVars, pageVars, procVars>>

Init ==
    /\ consumer \in {"pollVideoStatus", "VideoGenerationProgress", Outage,
                     "QuestionsPage", Submission, "ProcessingPage"}
    /\ maxAttempts = 0
    /\ interval = 0
    /\ attempts = 0
    /\ pollCalled = FALSE
    /\ pollInflight = {}
    /\ pollTimers = <<>>
    /\ pollSettles = <<>>
    /\ progressLog = <<>>
    /\ readLog = <<>>
    /\ timerLog = <<>>
    /\ vgpMounted = FALSE
    /\ questionId = NoField
    /\ vgpLog = <<>>
    /\ vgpInstance = 0
    /\ vgpSession = 0
    /\ vgpTimers = {}
    /\ vgpInflight = {}
    /\ vgpReads = 0
    /\ vgpStatus = NoStatus
    /\ isPolling = TRUE
    /\ vgpCalls = <<>>
    /\ vgpLast = NoRead
    /\ vgpFailures = 0
    /\ generatingQuestion = Null
    /\ showProgress = FALSE
    /\ loading = TRUE
    /\ qpLoads = 1
    /\ qpPending = {}
    /\ qpLast = NoSubmission
    /\ questions = {}
    /\ qpChild = "spinner"
    /\ qpExiting = FALSE
    /\ qpClicks = 0
    /\ qpRendered = View(Null, FALSE, TRUE, {})
    /\ qpQueued = FALSE
    /\ qpEffect = "none"
    /\ currentStep = 0
    /\ progress = Ms(0)
    /\ isComplete = FALSE
    /\ ppPc = "unmounted"
    /\ ppI = 0
    /\ ppJ = 0
    /\ ppRuns = 0

Next ==
    \/ PollCall
    \/ PollTimerFires
    \/ PollReadSettles
    \/ VGPMount
    \/ VGPDepsChange
    \/ VGPUnmount
    \/ VGPTick
    \/ VGPReadSettles
    \/ VGPTickOutage
    \/ VGPReadFails
    \/ QPLoaded
    \/ QPGenerate
    \/ QPSubmitAnswer
    \/ QPReadSettles
    \/ QPExitDone
    \/ QPRender
    \/ QPEffects
    \/ PPMount
    \/ PPTick
    \/ PPPauseEnds

Spec == Init /\ [][Next]_vars

\* pollVideoStatus alone
InitPoll == Init /\ consumer = "pollVideoStatus"

NextPoll ==
    \/ PollCall
    \/ PollTimerFires
    \/ PollReadSettles

SpecPoll == InitPoll /\ [][NextPoll]_vars

\* Timers of the event loop fire and every issued read ends in some outcome.
FairSpecPoll ==
    /\ SpecPoll
    /\ WF_vars(PollTimerFires)
    /\ WF_vars(PollReadSettles)

\* VideoGenerationProgress alone
InitVGP == Init /\ consumer = "VideoGenerationProgress"

NextVGP ==
    \/ VGPMount
    \/ VGPDepsChange
    \/ VGPUnmount
    \/ VGPTick
    \/ VGPReadSettles

SpecVGP == InitVGP /\ [][NextVGP]_vars

\* The component gets mounted, its interval timer fires and every issued
\* fetch ends in some outcome.
FairSpecVGP ==
    /\ SpecVGP
    /\ WF_vars(VGPMount)
    /\ WF_vars(VGPTick)
    /\ WF_vars(VGPReadSettles)

\* VideoGenerationProgress alone, against an unreachable status endpoint
InitOutage == Init /\ consumer = Outage

NextOutage ==
    \/ VGPMount
    \/ VGPDepsChange
    \/ VGPUnmount
    \/ VGPTickOutage
    \/ VGPReadFails

SpecOutage == InitOutage /\ [][NextOutage]_vars

\* The component gets mounted, its interval timer fires and every issued
\* fetch ends.
FairSpecOutage ==
    /\ SpecOutage
    /\ WF_vars(VGPMount)
    /\ WF_vars(VGPTickOutage)
    /\ WF_vars(VGPReadFails)

\* the two clients of the status endpoint, each on its own
InitClients ==
    Init /\ consumer \in {"pollVideoStatus", "VideoGenerationProgress"}

NextClients ==
    \/ PollCall
    \/ PollTimerFires
    \/ PollReadSettles
    \/ VGPMount
    \/ VGPDepsChange
    \/ VGPUnmount
    \/ VGPTick
    \/ VGPReadSettles

SpecClients == InitClients /\ [][NextClients]_vars

\* QuestionsPage with its VideoGenerationProgress
InitPage == Init /\ consumer = "QuestionsPage"

NextPage ==
    \/ QPLoaded
    \/ QPGenerate
    \/ QPSubmitAnswer
    \/ VGPTick
    \/ QPReadSettles
    \/ QPExitDone
    \/ QPRender
    \/ QPEffects

SpecPage == InitPage /\ [][NextPage]_vars

\* QuestionsPage with the answers of generateVideo recorded
InitSubmission == Init /\ consumer = Submission

SpecSubmission == InitSubmission /\ [][NextPage]_vars

\* ProcessingPage alone
InitProcessing == Init /\ consumer = "ProcessingPage"

NextProcessing ==
    \/ PPMount
    \/ PPTick
    \/ PPPauseEnds

SpecProcessing == InitProcessing /\ [][NextProcessing]_vars

-----------------------------------------------------------------------------
(* Helpers of the properties *)

Last(s) == s[Len(s)]

Settled == pollSettles # <<>>

Quiescent == pollInflight = {} /\ pollTimers = <<>>

FailedRead(e) == e.kind # "ok"

\* the read e returned a status and onProgress returned normally
CleanRead(e) == e.kind = "ok" /\ ~e.threw

ServiceError(b) == b.status = "failed" /\ b.error # NoField /\ b.error # ""

CallsOfSession(s) == {k \in DOMAIN vgpCalls : vgpCalls[k].session = s}

-----------------------------------------------------------------------------
(* Properties *)

\* C1: the promise of pollVideoStatus is settled at most once, resolved exactly
\* when the settling read returned `completed` and rejected otherwise; a run that
\* has come to rest has settled it exactly once; once it is settled no read is
\* outstanding or scheduled, no read was issued after the settling one and
\* onProgress was not called for any later read.
C1_SettledOnce ==
    /\ Len(pollSettles) <= 1
    /\ Settled =>
          LET s == pollSettles[1]
          IN  /\ Quiescent
              /\ attempts = s.read
              /\ readLog # <<>>
              /\ Last(readLog).read = s.read
              /\ \A k \in DOMAIN progressLog : progressLog[k].read <= s.read
              /\ (s.kind = "resolve") <=>
                    (CleanRead(Last(readLog)) /\ Last(readLog).body.status = "completed")
              /\ (s.kind = "resolve") => s.status = Last(readLog).body
    /\ (pollCalled /\ Quiescent) => Len(pollSettles) = 1

\* C1 witness: the promise was resolved by a `completed` read that was not the first read
C1_Witness ==
    /\ Settled
    /\ pollSettles[1].kind = "resolve"
    /\ attempts >= 2
    /\ Len(progressLog) >= 2

\* C4: pollVideoStatus issues at most maxAttempts status reads, failed and
\* successful reads alike (maxAttempts a positive integer), and once called it
\* eventually settles its promise whatever the outcomes of the reads are.
C4_BoundedAndSettles ==
    /\ [](pollCalled => (attempts <= maxAttempts /\ Len(readLog) <= maxAttempts))
    /\ (pollCalled ~> Settled)

\* C4 witness: every read failed, the ceiling of at least two reads was used up
\* and the promise is settled
C4_Witness ==
    /\ Settled
    /\ maxAttempts >= 2
    /\ attempts = maxAttempts
    /\ \A k \in DOMAIN readLog : FailedRead(readLog[k])

\* C6: when the ceiling is reached through a transport failure (the read that
\* uses up maxAttempts fails), the promise is rejected with the timeout reason,
\* which is none of the transport errors, and no read is issued afterwards.
C6_TimeoutReason ==
    (readLog # <<>> /\ FailedRead(Last(readLog)) /\ Last(readLog).read >= maxAttempts) =>
        /\ Settled
        /\ pollSettles[1].kind = "reject"
        /\ pollSettles[1].error = MsgTimeout
        /\ pollSettles[1].error \notin TransportErrors
        /\ Quiescent
        /\ attempts = Last(readLog).read

\* C8: a read that fails while fewer than maxAttempts reads have been issued
\* settles nothing and calls onProgress for nothing; it schedules exactly one
\* further read, after the delay min(interval * 1.5^attempts, 30000).
C8_FailedReadRetries ==
    \A k \in DOMAIN readLog :
        LET e == readLog[k]
            mine == {j \in DOMAIN pollTimers : pollTimers[j].read = e.read}
        IN  (FailedRead(e) /\ e.read < maxAttempts) =>
              /\ \A j \in DOMAIN pollSettles : pollSettles[j].read # e.read
              /\ \A j \in DOMAIN progressLog : progressLog[j].read # e.read
              /\ Cardinality(mine) <= 1
              /\ (Cardinality(mine) = 1) <=> (attempts = e.read)
              /\ attempts \in {e.read, e.read + 1} \/ k < Len(readLog)
              /\ \A j \in mine :
                    /\ pollTimers[j].kind = "backoff"
                    /\ DelayLeq(pollTimers[j].delay, Ms(30000))
                    /\ \/ DelayEq(pollTimers[j].delay, <<interval * 3 ^ e.read, 2 ^ e.read>>)
                       \/ /\ DelayEq(pollTimers[j].delay, Ms(30000))
                          /\ interval * 3 ^ e.read >= 30000 * 2 ^ e.read

\* C8 witness: the retry timer of a failed second read is pending
C8_Witness ==
    /\ Len(readLog) = 2
    /\ FailedRead(readLog[2])
    /\ attempts = 2
    /\ maxAttempts > 2
    /\ Len(pollTimers) = 1
    /\ ~Settled

\* C9: pollVideoStatus has at most one status read outstanding and never a read
\* outstanding together with a scheduled one; reads finish in the order they
\* were issued, onProgress is called in that order, at most once per read, and
\* the settlement belongs to the read issued last.
C9_OneReadAtATime ==
    /\ Cardinality(pollInflight) + Len(pollTimers) <= 1
    /\ (pollCalled /\ ~Settled) => Cardinality(pollInflight) + Len(pollTimers) = 1
    /\ \A k \in DOMAIN readLog : readLog[k].read = k
    /\ \A r \in pollInflight : r = attempts /\ Len(readLog) = attempts - 1
    /\ \A j, k \in DOMAIN progressLog : j < k => progressLog[j].read < progressLog[k].read
    /\ \A j \in DOMAIN pollSettles, k \in DOMAIN progressLog :
          progressLog[k].read <= pollSettles[j].read

\* C9 witness: the third read is outstanding after two reads that each called onProgress
C9_Witness ==
    /\ pollInflight = {3}
    /\ Len(progressLog) = 2

\* C2: within one tracking session of VideoGenerationProgress (one run of the
\* polling effect), onComplete and onError are called at most once in total,
\* however long the component stays mounted after the terminal status.
C2_OneTerminalCall ==
    \A s \in 1..vgpSession : Cardinality(CallsOfSession(s)) <= 1

\* C3: once a fetch of a session of VideoGenerationProgress has returned
\* `completed` or `failed`, no further fetch is issued for that session.
C3_PollingStops ==
    [][\A r \in vgpInflight' \ vgpInflight : CallsOfSession(r.session) = {}]_vars

\* C5: when every fetch fails and the session is not cancelled (the instance
\* stays mounted and its effect is not re-run), VideoGenerationProgress
\* eventually calls onError once, with the timeout reason, and has no fetch
\* outstanding.
C5_TimeoutDelivered ==
    <>(\/ (vgpSession >= 1 /\ ~vgpMounted)
       \/ vgpSession > 1
       \/ /\ Len(vgpCalls) = 1
          /\ vgpCalls[1].kind = "onError"
          /\ vgpCalls[1].error = MsgTimeout
          /\ vgpInflight = {})

\* C7: a read that returns `failed` with a service-provided error string e is
\* surfaced on that read with the message e: pollVideoStatus (onProgress having
\* returned) rejects with Error(e) and issues no read after it;
\* VideoGenerationProgress calls onError(e) for that fetch.
C7_ReportedFailure ==
    /\ \A k \in DOMAIN readLog :
          (CleanRead(readLog[k]) /\ ServiceError(readLog[k].body)) =>
              /\ k = Len(readLog)
              /\ pollSettles = <<Reject(readLog[k].body.error, readLog[k].read)>>
              /\ attempts = readLog[k].read
              /\ Quiescent
    /\ (vgpLast.kind = "ok" /\ ServiceError(vgpLast.body)) =>
          /\ vgpCalls # <<>>
          /\ Last(vgpCalls).kind = "onError"
          /\ Last(vgpCalls).error = vgpLast.body.error
          /\ Last(vgpCalls).read = vgpLast.read

\* C7 witness: pollVideoStatus read a non-terminal status and then `failed`
\* with the error of the service
C7_Witness ==
    /\ Len(readLog) = 2
    /\ CleanRead(readLog[1])
    /\ CleanRead(readLog[2])
    /\ ServiceError(readLog[2].body)
    /\ maxAttempts > 2
    /\ Settled

\* C10: VideoGenerationProgress never has two fetches of one session outstanding.
C10_OneFetchAtATime ==
    \A r1, r2 \in vgpInflight : r1.session = r2.session => r1 = r2

\* the number of consecutive failed reads that end with read k
RECURSIVE ConsecFailures(_)
ConsecFailures(k) ==
    IF k = 0 \/ ~FailedRead(readLog[k]) THEN 0 ELSE 1 + ConsecFailures(k - 1)

StatusEnum == {"queued", "running", "completed", "failed"}

NonTerminal(b) == b.status \notin {"completed", "failed"}

\* the read e failed, or returned a status of the enumeration to a callback
\* that returned
WellFormedRead(e) == FailedRead(e) \/ (CleanRead(e) /\ e.body.status \in StatusEnum)

\* C14: the retry delay after a failed read of pollVideoStatus is
\* min(interval * 1.5^k, 30000), k the number of consecutive failed reads
\* since the last successful read (reads with a status outside the enumeration
\* or a throwing callback left aside).
C14_DelayByConsecutiveFailures ==
    \A j \in DOMAIN pollTimers :
        LET t == pollTimers[j]
        IN  (/\ t.kind = "backoff"
             /\ FailedRead(readLog[t.read])
             /\ \A k \in 1..t.read : WellFormedRead(readLog[k])) =>
                DelayEq(t.delay, BackoffInterval(interval, ConsecFailures(t.read)))

\* C15: after a successful read of pollVideoStatus with a non-terminal status
\* (below the ceiling) the next read is scheduled after exactly the base
\* interval, whatever failed reads came before; the read settles nothing.
C15_BaseIntervalAfterSuccess ==
    \A k \in DOMAIN readLog :
        LET e == readLog[k]
        IN  (CleanRead(e) /\ NonTerminal(e.body) /\ e.read < maxAttempts) =>
              /\ \A j \in DOMAIN pollSettles : pollSettles[j].read # e.read
              /\ (attempts = e.read) =>
                    /\ Len(pollTimers) = 1
                    /\ pollTimers[1].read = e.read
                    /\ pollTimers[1].kind = "interval"
                    /\ DelayEq(pollTimers[1].delay, Ms(interval))
              /\ (attempts # e.read) =>
                    \A j \in DOMAIN pollTimers : pollTimers[j].read # e.read

\* C15 witness: a failed read, then a successful non-terminal read whose timer is pending
C15_Witness ==
    /\ Len(readLog) = 2
    /\ FailedRead(readLog[1])
    /\ CleanRead(readLog[2])
    /\ readLog[2].body.status = "running"
    /\ Len(pollTimers) = 1
    /\ interval < MaxDelay

\* C16: pollVideoStatus calls onProgress exactly once for every successful
\* read, terminal or repeated status included, with the status of that read,
\* and never for a failed read; the call precedes the settlement of that read,
\* so a read whose onProgress threw is never settled by its status.
C16_ProgressPerSuccessfulRead ==
    /\ \A k \in DOMAIN readLog :
          LET mine == {j \in DOMAIN progressLog : progressLog[j].read = readLog[k].read}
          IN  IF readLog[k].kind = "ok"
              THEN /\ Cardinality(mine) = 1
                   /\ \A j \in mine : progressLog[j].status = readLog[k].body
              ELSE mine = {}
    /\ \A j \in DOMAIN progressLog : progressLog[j].read \in DOMAIN readLog
    /\ \A j \in DOMAIN pollSettles :
          readLog[pollSettles[j].read].threw => pollSettles[j].error = ErrCallback

\* C16 witness: two reads with the same status and then `completed`, three onProgress calls
C16_Witness ==
    /\ Len(progressLog) = 3
    /\ progressLog[1].status = progressLog[2].status
    /\ progressLog[1].status.status = "running"
    /\ progressLog[3].status.status = "completed"
    /\ Settled

\* C17: a 2xx body whose status is missing or outside
\* queued|running|completed|failed is never passed to onProgress.
C17_MalformedNotDelivered ==
    \A j \in DOMAIN progressLog : progressLog[j].status.status \in StatusEnum

\* the run s of the polling effect has been cleaned up
Cancelled(s) == s < vgpSession \/ ~vgpMounted

\* C11: the result of a fetch that arrives after the cleanup of the run of the
\* effect that issued it changes neither the stored status nor the calls of
\* onComplete / onError.
C11_LateResultDiscarded ==
    [][\A r \in vgpInflight \ vgpInflight' :
          Cancelled(r.session) => (vgpStatus' = vgpStatus /\ vgpCalls' = vgpCalls)]_vars

\* C18: a failed fetch of VideoGenerationProgress calls neither onComplete nor
\* onError, leaves the stored status and isPolling as they were, and leaves
\* the interval timer running.
C18_FailedFetchAbsorbed ==
    [][vgpFailures' # vgpFailures =>
          /\ vgpCalls' = vgpCalls
          /\ vgpStatus' = vgpStatus
          /\ isPolling' = isPolling
          /\ vgpTimers' = vgpTimers]_vars

\* C18 witness: a fetch returned `running`, then a later fetch failed; the
\* stored status is still the one of the first and the interval is active
C18_Witness ==
    /\ Len(vgpLog) = 2
    /\ vgpLog[1].ok
    /\ vgpLog[1].status = "running"
    /\ ~vgpLog[2].ok
    /\ vgpStatus.status = "running"
    /\ vgpCalls = <<>>
    /\ vgpTimers # {}

\* C19: every run of the polling effect issues a fetch for the question at
\* once, and while the instance stays mounted with the same questionId the
\* interval is not replaced and no run of the effect is added.
C19_SteadyCadence ==
    [][/\ vgpSession' # vgpSession =>
              \E r \in vgpInflight' \ vgpInflight :
                  r.session = vgpSession' /\ r.question = questionId'
       /\ (vgpMounted /\ vgpMounted' /\ vgpInstance' = vgpInstance
              /\ questionId' = questionId) =>
              (vgpSession' = vgpSession /\ vgpTimers' = vgpTimers)]_vars

\* the fetches of the log that returned a status of the enumeration for the
\* question q
Answers(q) ==
    {k \in DOMAIN vgpLog : /\ vgpLog[k].ok
                            /\ vgpLog[k].question = q
                            /\ vgpLog[k].status \in StatusEnum}

\* the service reported non-decreasing progress for q: a fetch issued later
\* never got a smaller progress than a fetch issued earlier
ServiceMonotone(q) ==
    \A i, j \in Answers(q) :
        vgpLog[i].read < vgpLog[j].read =>
            vgpLog[i].progress <= vgpLog[j].progress

\* C20: if the service reported non-decreasing progress for a question, the
\* statuses stored for it in one tracking session of VideoGenerationProgress
\* have non-decreasing progress in the order in which they were stored.
C20_NoFabricatedRegression ==
    \A q \in Questions :
        ServiceMonotone(q) =>
            \A i, j \in Answers(q) :
                (i < j /\ vgpLog[i].stored /\ vgpLog[j].stored
                   /\ vgpLog[i].session = vgpLog[j].session) =>
                    vgpLog[i].progress <= vgpLog[j].progress

\* C12: at most one interval timer is active for a question id, and on
\* QuestionsPage an active timer polls the question that the page shows as
\* being generated unless its tracker is animating out or React has yet to
\* run the cleanup of its effect.
C12_OnePollingLoop ==
    /\ \A t1, t2 \in vgpTimers : t1.question = t2.question => t1 = t2
    /\ OnPage =>
          \A t \in vgpTimers :
              \/ qpExiting
              \/ qpEffect \in {"rerun", "unmount"}
              \/ t.question = qpRendered.generatingQuestion

\* C12 witness: Generate was requested again for Q1 while a fetch of its
\* earlier tracking is still outstanding; one interval is active
C12_Witness ==
    /\ consumer = "QuestionsPage"
    /\ vgpMounted
    /\ vgpInstance = 2
    /\ generatingQuestion = "Q1"
    /\ \E r \in vgpInflight : r.inst = 1 /\ r.question = "Q1"
    /\ Cardinality(vgpTimers) = 1

\* the fetch with number id for the question q was issued after the click of
\* the pending generateVideo call p
IssuedForExisting(id, q, p) == q = p.question /\ p.from < id

\* C13: when generateVideo answers `already_exists` for a question, no fetch
\* of the status issued for it after the click of that request is
\* outstanding and no onComplete / onError has been delivered for one.
C13_ExistingJobNotTracked ==
    [][\A p \in qpPending \ qpPending' :
          qpLast' = "already_exists" =>
              /\ \A r \in vgpInflight : ~IssuedForExisting(r.id, r.question, p)
              /\ \A k \in DOMAIN vgpCalls :
                    ~IssuedForExisting(vgpCalls[k].read, vgpCalls[k].question, p)]_vars

\* the retry delays computed by the catch branch, in order
Backoffs == {k \in DOMAIN timerLog : timerLog[k].kind = "backoff"}

\* C25: every retry delay of pollVideoStatus is at most 30000 ms, is at least
\* the base interval when the base interval is not above 30000 ms, and is not
\* smaller than any retry delay computed earlier in the same call.
C25_BackoffCappedMonotone ==
    \A k \in Backoffs :
        /\ DelayLeq(timerLog[k].delay, Ms(MaxDelay))
        /\ interval <= MaxDelay => DelayLeq(Ms(interval), timerLog[k].delay)
        /\ \A j \in Backoffs : j < k => DelayLeq(timerLog[j].delay, timerLog[k].delay)

\* C25 witness: two retries in one call with base interval 20000: the first
\* delay is 30000 exactly and the second, 45000 uncapped, is the cap
C25_Witness ==
    /\ Len(timerLog) = 2
    /\ Backoffs = {1, 2}
    /\ interval = 20000
    /\ timerLog[2].delay = Ms(MaxDelay)

\* C24: when the maxAttempts-th read of pollVideoStatus returns a non-terminal
\* status (onProgress having returned), the promise is rejected with 'Video
\* generation timeout' and neither a timer nor a read follows; when it returns
\* `completed` or `failed`, the promise is settled by that status instead.
C24_CeilingOnSuccessfulRead ==
    \A k \in DOMAIN readLog :
        LET e == readLog[k]
        IN  (CleanRead(e) /\ e.read = maxAttempts) =>
                /\ k = Len(readLog)
                /\ attempts = maxAttempts
                /\ Quiescent
                /\ Len(pollSettles) = 1
                /\ pollSettles[1] =
                      IF e.body.status = "completed" THEN Resolve(e.body, e.read)
                      ELSE IF e.body.status = "failed"
                      THEN Reject(ErrorOrDefault(e.body.error), e.read)
                      ELSE Reject(MsgTimeout, e.read)

\* C24 witness: with maxAttempts = 2 the second read returned `completed`
\* after a first read that returned `running`
C24_Witness ==
    /\ maxAttempts = 2
    /\ Len(readLog) = 2
    /\ CleanRead(readLog[1])
    /\ readLog[1].body.status = "running"
    /\ CleanRead(readLog[2])
    /\ readLog[2].body.status = "completed"
    /\ pollSettles # <<>>

\* C26: a read of pollVideoStatus that returns `completed` or `failed` settles
\* the promise by that status on that read, whether onProgress returned or
\* threw: no timer is set after it and no read follows it.
C26_TerminalDespiteCallback ==
    \A k \in DOMAIN readLog :
        LET e == readLog[k]
        IN  (e.kind = "ok" /\ e.body.status \in {"completed", "failed"}) =>
                /\ k = Len(readLog)
                /\ attempts = e.read
                /\ \A j \in DOMAIN timerLog : timerLog[j].read # e.read
                /\ pollSettles =
                      IF e.body.status = "completed"
                      THEN <<Resolve(e.body, e.read)>>
                      ELSE <<Reject(ErrorOrDefault(e.body.error), e.read)>>

\* C23: a read that returns `completed` is reported with the status object of
\* that very read, video_file included: pollVideoStatus (onProgress having
\* returned) resolves with it, VideoGenerationProgress passes it to onComplete.
C23_CompletionCarriesStatus ==
    /\ \A k \in DOMAIN readLog :
          (CleanRead(readLog[k]) /\ readLog[k].body.status = "completed") =>
              /\ pollSettles = <<Resolve(readLog[k].body, readLog[k].read)>>
              /\ pollSettles[1].status.video_file = readLog[k].body.video_file
    /\ (vgpLast.kind = "ok" /\ vgpLast.body.status = "completed") =>
          /\ vgpCalls # <<>>
          /\ Last(vgpCalls).kind = "onComplete"
          /\ Last(vgpCalls).status = vgpLast.body
          /\ Last(vgpCalls).read = vgpLast.read

\* C23 witness: VideoGenerationProgress stored `running` from one fetch and
\* then got `completed` with a video file from the next
C23_Witness ==
    /\ Len(vgpLog) = 2
    /\ vgpLog[1].ok
    /\ vgpLog[1].status = "running"
    /\ vgpLast.read = 2
    /\ vgpLast.kind = "ok"
    /\ vgpLast.body.status = "completed"
    /\ vgpLast.body.video_file # NoField
    /\ Len(vgpCalls) = 1

\* C29: a read that returns `failed` with a missing or empty error is
\* reported with the text 'Video generation failed': pollVideoStatus
\* (onProgress having returned) rejects with it, VideoGenerationProgress
\* passes it to onError.
C29_DefaultFailureMessage ==
    /\ \A k \in DOMAIN readLog :
          (/\ CleanRead(readLog[k])
           /\ readLog[k].body.status = "failed"
           /\ readLog[k].body.error \in {NoField, ""}) =>
              pollSettles = <<Reject(MsgFailed, readLog[k].read)>>
    /\ (/\ vgpLast.kind = "ok"
        /\ vgpLast.body.status = "failed"
        /\ vgpLast.body.error \in {NoField, ""}) =>
          /\ vgpCalls # <<>>
          /\ Last(vgpCalls).kind = "onError"
          /\ Last(vgpCalls).error = MsgFailed
          /\ Last(vgpCalls).read = vgpLast.read

\* C29 witness: the first fetch of VideoGenerationProgress returned `failed`
\* with an empty error string
C29_Witness ==
    /\ vgpLast.kind = "ok"
    /\ vgpLast.body.status = "failed"
    /\ vgpLast.body.error = ""
    /\ Len(vgpCalls) = 1
    /\ vgpCalls[1].error = MsgFailed

\* C21: the cleanup of a run of the polling effect clears its interval: the
\* only interval left is that of the current run of a mounted instance, and
\* every fetch that is issued belongs to that run.
C21_CancelledSessionSilent ==
    [][/\ \A t \in vgpTimers' : vgpMounted' /\ t.session = vgpSession'
       /\ \A r \in vgpInflight' \ vgpInflight :
             vgpMounted' /\ r.session = vgpSession']_vars

\* C21 witness: the component was unmounted after its first fetch had
\* finished; no interval is left although a further fetch would be allowed
C21_Witness ==
    /\ consumer = "VideoGenerationProgress"
    /\ ~vgpMounted
    /\ vgpSession = 1
    /\ Len(vgpLog) = 1
    /\ vgpInflight = {}
    /\ vgpTimers = {}
    /\ vgpReads < MaxReads

\* the step is the start of a handleGenerateVideo / the end of one
GenerateStep == qpPending' # qpPending /\ qpPending \subseteq qpPending'

AnswerStep == qpPending' # qpPending /\ qpPending' \subseteq qpPending

\* a run of the polling effect starts in the step: its interval is the one
\* that is active, and its first fetch is issued
SessionStarts ==
    /\ vgpSession' > vgpSession
    /\ vgpTimers' = {Interval(vgpSession', vgpInstance', questionId')}
    /\ Fetch(vgpReads', vgpSession', vgpInstance', questionId')
          \in vgpInflight' \ vgpInflight

\* a run of the polling effect starts in the step for the question that the
\* page shows as being generated
RunStarts ==
    /\ SessionStarts
    /\ vgpMounted'
    /\ qpRendered'.generatingQuestion # Null
    /\ questionId' = qpRendered'.generatingQuestion

\* the page has queued state updates that React has not rendered yet
RenderDue ==
    qpQueued \/ View(generatingQuestion, showProgress, loading, questions) # qpRendered

\* while generatingQuestion is null, a tracker that is still mounted is about
\* to go: the render of that state is due, or its exit animation is running;
\* and an interval is left without a mounted tracker only until React has
\* run the cleanup that the unmount left
Released ==
    /\ (generatingQuestion = Null /\ vgpMounted) =>
          (RenderDue \/ (qpExiting /\ qpChild = "progress"))
    /\ ~vgpMounted => (vgpTimers = {} \/ qpEffect = "unmount")

\* when the page has rendered a question as being generated and no exit
\* animation is running, the tracker is mounted for it, with one interval of
\* its current run of the polling effect once React has run the effects that
\* the commit left
Tracked ==
    (qpRendered.generatingQuestion # Null /\ qpRendered.showProgress
        /\ ~qpRendered.loading /\ ~qpExiting) =>
        /\ vgpMounted
        /\ questionId = qpRendered.generatingQuestion
        /\ \/ qpEffect \in {"mount", "rerun"}
           \/ vgpTimers = {Interval(vgpSession, vgpInstance, questionId)}

\* the steps of the release and of the next tracking
ReleaseSteps ==
    /\ vgpCalls' # vgpCalls => (generatingQuestion' = Null /\ ~showProgress')
    /\ (qpRendered' # qpRendered /\ qpRendered'.generatingQuestion = Null) =>
          /\ qpRendered'.loading => ~vgpMounted'
          /\ vgpMounted' => (qpExiting' /\ qpChild' = "progress")
    /\ (vgpMounted /\ qpExiting /\ ~qpExiting') => (~vgpMounted' \/ RunStarts)
    /\ (qpEffect = "unmount" /\ qpEffect' # "unmount") =>
          \A t \in vgpTimers' : t.session = vgpSession' /\ vgpSession' > vgpSession
    /\ vgpSession' # vgpSession => SessionStarts
    /\ GenerateStep => (qpEffect' = "none" /\ (vgpMounted' => RunStarts))
    /\ (~vgpMounted /\ vgpMounted') =>
          (vgpInstance' = vgpInstance + 1 /\ vgpStatus' = NoStatus)

C27_ClearedByOwnOutcome ==
    [][(generatingQuestion # Null /\ generatingQuestion' = Null) =>
          /\ \A p \in qpPending \ qpPending' : p.question = generatingQuestion
          /\ \A r \in vgpInflight \ vgpInflight' : r.question = generatingQuestion]_vars

\* C28: when generateVideo has answered anything but `started` (a thrown
\* error, `already_exists`, or a body with any other status),
\* generatingQuestion is null and showProgress false.
C28_TrackedOnlyIfStarted ==
    [][(AnswerStep /\ qpLast' # "started") =>
          (generatingQuestion' = Null /\ ~showProgress')]_vars

\* the order of the steps that the page announces
StepOrder == <<"research", "content", "video">>

\* progress is exactly p percent
ProgressIs(pr, p) == DelayEq(pr, Ms(p))

\* the values that the state of ProcessingPage may have
StepsState ==
    /\ currentStep \in 0..(Len(Steps) - 1)
    /\ Steps[currentStep + 1].id = StepOrder[currentStep + 1]
    /\ ppRuns = 0 => (currentStep = 0 /\ ProgressIs(progress, 0) /\ ~isComplete)
    /\ ppRuns <= 1
    /\ isComplete => (/\ currentStep = Len(Steps) - 1
                      /\ ProgressIs(progress, 100)
                      /\ ppPc = "done")

\* the changes that the state of ProcessingPage may make
StepsChange ==
    /\ currentStep' = currentStep \/ currentStep' = currentStep + 1
    /\ currentStep' # currentStep =>
          (ProgressIs(progress, 100) /\ ProgressIs(progress', 0))
    /\ isComplete => (isComplete' /\ ppRuns' = ppRuns)

\* C30: ProcessingPage shows the steps research, content, video in that
\* order: currentStep starts at 0 and changes only by +1, at a moment when
\* progress is 100 and becomes 0; isComplete holds only with the last step at
\* 100, stays true, and runSteps is called once and never after completion.
C30_StepsInOrder == []StepsState /\ [][StepsChange]_vars

\* C30 witness: the three steps have run and the page is complete
C30_Witness ==
    /\ consumer = "ProcessingPage"
    /\ isComplete
    /\ ppRuns = 1
    /\ currentStep = 2
    /\ ppJ = StepsCount(2) + 1

====
